---- MODULE Spec2Model ----
(***************************************************************************)
(* State-machine model of the task orchestration library: Task,            *)
(* TaskWithQueue, TaskList (sequential lane) and TaskBucket (bounded       *)
(* distributor).  One action per run-to-completion job of the JavaScript   *)
(* event loop: a synchronous call from the caller, or the continuation of  *)
(* one `await`.                                                            *)
(***************************************************************************)
EXTENDS Integers, Sequences, FiniteSets, TLC

\* ---------------------------------------------------------------- bounds
MaxUnits       == 2   \* units declared in the root lane's queue
MaxBucketUnits == 3   \* units declared in the distributor's queue
MaxParallel    == 2   \* largest `parallel` a distributor is built with
MaxCalls       == 1   \* addTask/prependTask calls made by the caller

\* ------------------------------------------------------- object identities
NoId == -1
R    == 0                      \* the TaskList built by the caller
B    == 1                      \* the TaskBucket built by the caller
U(i) == 100 + i                \* i-th Task declared in R's queue
V(i) == 200 + i                \* i-th Task declared in B's queue
L(i) == 300 + i                \* i-th TaskList created by B.runTasks
X(i) == 400 + i                \* i-th Task handed to addTask/prependTask

UnitsU == {U(i) : i \in 1..MaxUnits}
UnitsV == {V(i) : i \in 1..MaxBucketUnits}
UnitsX == {X(i) : i \in 1..(MaxCalls + 1)}
Lanes  == {L(i) : i \in 1..MaxParallel}
Ids    == {R, B} \cup UnitsU \cup UnitsV \cup UnitsX \cup Lanes

Kind(t) == IF t = B THEN "bucket"
           ELSE IF t = R \/ t \in Lanes THEN "list"
           ELSE "task"

\* ------------------------------------------------------------ JS values
Undef    == [tag |-> "undefined"]
False    == [tag |-> "false"]
NotANum  == [tag |-> "NaN"]
EmptyObj == [tag |-> "object"]
Num(n)   == [tag |-> "int", n |-> n]
Str(s)   == [tag |-> "string", s |-> s]
Arr(q)   == [tag |-> "array", items |-> q]
Err(i)   == [tag |-> "Error", id |-> i]      \* an Error instance
Raw(i)   == [tag |-> "thrown", id |-> i]     \* a thrown non-Error value
NoExc    == [tag |-> "none"]
\* new Error("Can't add tasks after list is finished or a task failed")
StructErr == Err(0)
\* TypeError of reading/writing a property of undefined
TypeErr   == Err(-1)
\* {state, last, controller}
Ctx(s, l, c) == [tag |-> "ctx", state |-> s, last |-> l, controller |-> c,
                 parallel |-> Undef]

\* `last + 1` of the test's second unit
AddOne(v) == IF v.tag = "int" THEN Num(v.n + 1)
             ELSE IF v.tag = "false" THEN Num(1)
             ELSE NotANum

\* events.EventEmitter: emit('error') without a listener throws the value
\* when it is an Error, else an ERR_UNHANDLED_ERROR wrapping it
Unhandled(e) == IF e.tag = "Error" THEN e
                ELSE [tag |-> "Error", id |-> -2, context |-> e]

VARIABLES heap, exec, run, signals, calls, cfg, started

vars == <<heap, exec, run, signals, calls, cfg, started>>

\* The part of the state the synchronous code reads and writes.
World == [heap |-> heap, exec |-> exec, run |-> run, signals |-> signals,
          calls |-> calls, exc |-> NoExc]

\* --------------------------------------------------------- constructors
\* Task constructor
NewTask == [status |-> "created", result |-> Undef, error |-> Undef,
            ticks |-> 0, totalTicks |-> 0,
            tasks |-> <<>>, taskIndex |-> 0,
            wait |-> FALSE, empty |-> FALSE, isQueue |-> FALSE,
            controller |-> NoId, owner |-> NoId, subs |-> <<>>,
            errSub |-> FALSE,
            taskLists |-> <<>>, parallel |-> 0, collect |-> "none",
            clearing |-> FALSE]

\* TaskWithQueue constructor
NewTaskWithQueue(q) == [NewTask EXCEPT !.tasks = q, !.totalTicks = Len(q),
                                       !.taskIndex = 0]

\* TaskList constructor
NewTaskList(self, q, controller, isQueue) ==
  [NewTaskWithQueue(q) EXCEPT
     !.controller = IF controller = NoId THEN self ELSE controller,
     !.wait = FALSE, !.empty = FALSE, !.isQueue = isQueue]

\* TaskBucket constructor
NewTaskBucket(q, parallel, collect) ==
  [NewTaskWithQueue(q) EXCEPT !.collect = collect, !.taskLists = <<>>,
                              !.parallel = parallel, !.clearing = FALSE]

NoExec == [pc |-> "none", input |-> Undef, out |-> Undef]
NoRun  == [pc |-> "none", input |-> Undef, state |-> Undef, last |-> Undef,
           child |-> NoId, out |-> Undef]

\* ------------------------------------------------------ event emitter
ChildName(name) == CASE name = "error"    -> "child/error"
                     [] name = "execute"  -> "child/execute"
                     [] name = "progress" -> "child/progress"
                     [] name = "done"     -> "child/done"

BaseNames  == {"error", "execute", "progress", "done"}
ChildNames == {"child/error", "child/execute", "child/progress", "child/done"}

\* The listeners registered on t for an event, in registration order:
\* task.on(...) of TaskList.runTasks, taskList.on(...) of TaskBucket.runTasks
\* and the caller's own subscription to 'error'.
Listeners(w, t, name) ==
  IF name \in BaseNames
  THEN [i \in 1..Len(w.heap[t].subs) |->
           [k |-> "bubble", to |-> w.heap[t].subs[i]]]
       \o (IF name = "error" /\ w.heap[t].errSub
           THEN <<[k |-> "user", to |-> NoId]>> ELSE <<>>)
  ELSE IF w.heap[t].owner # NoId
       THEN <<[k |-> "bucket", to |-> w.heap[t].owner]>>
       ELSE <<>>

Throw(w, e) == [w EXCEPT !.exc = e]

\* TaskWithQueue.allowTaskAddition
BaseAllowTaskAddition(w, s) ==
  w.heap[s].status # "done" /\ w.heap[s].status # "error"

\* TaskBucket.allowTaskAddition
BucketAllowTaskAddition(w, s) ==
  ~w.heap[s].clearing /\ BaseAllowTaskAddition(w, s)

AllowTaskAddition(w, s) ==
  IF Kind(s) = "bucket" THEN BucketAllowTaskAddition(w, s)
  ELSE BaseAllowTaskAddition(w, s)

CallRec(w, op, s, u, by, threw, after) ==
  [op |-> op, scope |-> s, unit |-> u, by |-> by,
   status |-> w.heap[s].status, threw |-> threw,
   before |-> [tasks |-> w.heap[s].tasks, taskIndex |-> w.heap[s].taskIndex,
               totalTicks |-> w.heap[s].totalTicks],
   after  |-> [tasks |-> after.tasks, taskIndex |-> after.taskIndex,
               totalTicks |-> after.totalTicks]]

\* AddTask that pushes the unit without counting it
AddTaskNoTick(w, s, u, by) ==
  IF AllowTaskAddition(w, s)
  THEN Throw([w EXCEPT !.calls = Append(@,
                 CallRec(w, "addTask", s, u, by, TRUE, w.heap[s]))],
             StructErr)
  ELSE LET o == [w.heap[s] EXCEPT !.tasks = Append(@, u)]
       IN [w EXCEPT !.heap[s] = o,
                    !.calls = Append(@,
                       CallRec(w, "addTask", s, u, by, FALSE, o))]

\* TaskWithQueue.addTask
AddTask(w, s, u, by) ==
  IF AllowTaskAddition(w, s)
  THEN Throw([w EXCEPT !.calls = Append(@,
                 CallRec(w, "addTask", s, u, by, TRUE, w.heap[s]))],
             StructErr)
  ELSE LET o == [w.heap[s] EXCEPT !.tasks = Append(@, u),
                                  !.totalTicks = @ + 1]
       IN [w EXCEPT !.heap[s] = o,
                    !.calls = Append(@,
                       CallRec(w, "addTask", s, u, by, FALSE, o))]

\* Array.prototype.splice(i, 0, u) with a 0-based index i
Splice(q, i, u) == SubSeq(q, 1, i) \o <<u>> \o SubSeq(q, i + 1, Len(q))

\* TaskWithQueue.prependTask
PrependTask(w, s, u, by) ==
  IF AllowTaskAddition(w, s)
  THEN Throw([w EXCEPT !.calls = Append(@,
                 CallRec(w, "prependTask", s, u, by, TRUE, w.heap[s]))],
             StructErr)
  ELSE LET o == [w.heap[s] EXCEPT
                    !.tasks = Splice(@, w.heap[s].taskIndex, u),
                    !.totalTicks = @ + 1]
       IN [w EXCEPT !.heap[s] = o,
                    !.calls = Append(@,
                       CallRec(w, "prependTask", s, u, by, FALSE, o))]

\* TaskList.pause / TaskList.resume
Pause(w, l)  == [w EXCEPT !.heap[l].wait = TRUE]
Resume(w, l) == [w EXCEPT !.heap[l].wait = FALSE]

RECURSIVE ResumeAll(_, _, _)
ResumeAll(w, q, i) ==
  IF i > Len(q) THEN w ELSE ResumeAll(Resume(w, q[i]), q, i + 1)

\* TaskBucket.checkDone
CheckDone(w, b) ==
  IF \E i \in 1..Len(w.heap[b].taskLists) :
        ~w.heap[w.heap[b].taskLists[i]].empty
  THEN w
  ELSE ResumeAll(w, w.heap[b].taskLists, 1)

RECURSIVE Emit(_, _, _, _, _)
RECURSIVE Deliver(_, _, _, _, _, _)
RECURSIVE Handle(_, _, _, _, _, _)
RECURSIVE Progress(_, _, _)

\* EventEmitter.emit(name, ...) on t; src is the task the event is about,
\* val the error raised or the tick count reported
Emit(w, t, name, src, val) ==
  Deliver([w EXCEPT !.signals = Append(@,
              [on |-> t, name |-> name, src |-> src, val |-> val])],
          t, name, src, val, 1)

Deliver(w, t, name, src, val, i) ==
  LET ls == Listeners(w, t, name) IN
  IF i > Len(ls) \/ w.exc # NoExc THEN w
  ELSE Deliver(Handle(w, ls[i], t, name, src, val), t, name, src, val, i + 1)

\* Task.progress
Progress(w, t, n) ==
  Emit([w EXCEPT !.heap[t].ticks = n], t, "progress", t, Num(n))

\* the bodies of the registered listeners
Handle(w, lis, t, name, src, val) ==
  CASE lis.k = "user" -> w
    [] lis.k = "bubble" -> Emit(w, lis.to, ChildName(name), src, val)
    [] lis.k = "bucket" ->
         LET b == lis.to IN
         IF name = "child/done"
         THEN LET w1 == Emit(w, b, "child/done", src, val)
              IN Progress(w1, b, w1.heap[b].ticks + 1)
         ELSE IF name = "empty"
         THEN IF w.heap[b].taskIndex >= Len(w.heap[b].tasks)
              THEN CheckDone(w, b)
              ELSE AddTask([w EXCEPT !.heap[b].taskIndex = @ + 1], t,
                           w.heap[b].tasks[w.heap[b].taskIndex + 1], b)
         ELSE Emit(w, b, name, src, val)

\* Task.state
State(w, t, status) ==
  Emit([w EXCEPT !.heap[t].status = status], t, status, t, Undef)

\* ------------------------------------------------- Task.execute, runTasks
\* `input || {}`
OrEmpty(v) == IF v.tag \in {"undefined", "false"} THEN EmptyObj ELSE v

\* ChildInput with a `last` that is never updated
ChildInputStale(w, l) ==
  IF w.heap[l].isQueue THEN w.run[l].input
  ELSE Ctx(w.run[l].state, False, w.heap[l].controller)

\* the argument of task.execute(...) in TaskList.runTasks
ChildInput(w, l) ==
  IF w.heap[l].isQueue THEN w.run[l].input
  ELSE Ctx(w.run[l].state, w.run[l].last, w.heap[l].controller)

\* the argument of this.progress(...) in TaskList.runTasks, given the
\* value of taskIndex before the statement
TickArg(taskIndex) == taskIndex

RECURSIVE Execute(_, _, _)
RECURSIVE Loop(_, _)
RECURSIVE ExecuteAll(_, _, _, _)
RECURSIVE CreateLanes(_, _)

\* TaskList.runTasks from the test of the while loop to the next await
Loop(w, l) ==
  LET o == w.heap[l] IN
  IF o.taskIndex < Len(o.tasks)
  THEN LET task == o.tasks[o.taskIndex + 1]
           w1   == [w EXCEPT !.heap[l].empty = FALSE,
                             !.heap[task].subs = Append(@, l)]
           w2   == Execute(w1, task, ChildInput(w1, l))
       IN [w2 EXCEPT !.run[l].pc = "child", !.run[l].child = task]
  ELSE [w EXCEPT !.run[l].pc = "returned", !.run[l].out = w.run[l].last]

\* CreateLanes with a loop that stops one lane short of `parallel`
CreateLanesShort(w, b) ==
  IF Len(w.heap[b].taskLists) + 1 < w.heap[b].parallel
  THEN LET l  == L(Len(w.heap[b].taskLists) + 1)
           w1 == [w EXCEPT !.heap[l] =
                     [NewTaskList(l, <<>>, b, TRUE) EXCEPT !.owner = b]]
           w2 == Pause(w1, l)
       IN CreateLanes([w2 EXCEPT !.heap[b].taskLists = Append(@, l)], b)
  ELSE w

\* TaskBucket.runTasks: the while loop that fills the pool
CreateLanes(w, b) ==
  IF Len(w.heap[b].taskLists) < w.heap[b].parallel
  THEN LET l  == L(Len(w.heap[b].taskLists) + 1)
           w1 == [w EXCEPT !.heap[l] =
                     [NewTaskList(l, <<>>, b, TRUE) EXCEPT !.owner = b]]
           w2 == Pause(w1, l)
       IN CreateLanes([w2 EXCEPT !.heap[b].taskLists = Append(@, l)], b)
  ELSE w

\* this.taskLists.map((task) => task.execute(input))
ExecuteAll(w, q, i, input) ==
  IF i > Len(q) THEN w
  ELSE ExecuteAll(Execute(w, q[i], input), q, i + 1, input)

\* TaskBucket.runTasks up to `await Promise.all(...)`
RunTasksBucket(w, b, input) ==
  LET w1 == CreateLanes(w, b)
      w2 == ExecuteAll(w1, w1.heap[b].taskLists, 1, input)
  IN [w2 EXCEPT !.run[b] = [NoRun EXCEPT !.pc = "all", !.input = input]]

\* Task.execute up to `await this.action(input, this)`
Execute(w, t, input) ==
  LET w1 == State(w, t, "execute")
      w2 == [w1 EXCEPT !.exec[t] = [pc |-> "await", input |-> input,
                                    out |-> Undef]]
  IN CASE Kind(t) = "task"   -> w2
       [] Kind(t) = "list"   ->
            Loop([w2 EXCEPT !.run[t] =
                    [NoRun EXCEPT !.pc = "loop", !.input = input,
                                  !.state = OrEmpty(input),
                                  !.last = False]], t)
       [] Kind(t) = "bucket" -> RunTasksBucket(w2, t, input)

\* Task.execute: the catch block
SettleErr(w, t, e) ==
  LET w0 == [w EXCEPT !.heap[t].error = e, !.exc = NoExc] IN
  IF Len(Listeners(w0, t, "error")) = 0
  THEN [w0 EXCEPT !.exec[t].pc = "rejected", !.exec[t].out = Unhandled(e)]
  ELSE LET w1 == Emit(w0, t, "error", t, e)
       IN [w1 EXCEPT !.heap[t].status = "error",
                     !.exec[t].pc = "rejected", !.exec[t].out = e]

\* Task.execute after the action's promise fulfilled with v
SettleOk(w, t, v) ==
  LET w1 == State([w EXCEPT !.heap[t].result = v], t, "done") IN
  IF w1.exc # NoExc THEN SettleErr(w1, t, w1.exc)
  ELSE [w1 EXCEPT !.exec[t].pc = "resolved",
                  !.exec[t].out = w1.heap[t].result]

\* the collect functions of the two test files
Collect(w, b, input) ==
  LET q == w.heap[b].tasks
      mapped == IF w.heap[b].collect = "results"
                THEN [i \in 1..Len(q) |-> w.heap[q[i]].result]
                ELSE [i \in 1..Len(q) |-> Str(w.heap[q[i]].status)]
  IN IF input.tag = "ctx"
     THEN [ok |-> TRUE,  v |-> [input EXCEPT !.parallel = Arr(mapped)]]
     ELSE [ok |-> FALSE, v |-> TypeErr]

\* BucketResult that ignores the collect function
BucketResultNoCollect(w, b, input) ==
  [ok |-> TRUE,
   v  |-> Arr([i \in 1..Len(w.heap[b].tasks) |->
                  w.heap[w.heap[b].tasks[i]].result])]

\* TaskBucket.runTasks after Promise.all fulfilled
BucketResult(w, b, input) ==
  IF w.heap[b].collect # "none"
  THEN Collect(w, b, input)
  ELSE [ok |-> TRUE,
        v  |-> Arr([i \in 1..Len(w.heap[b].tasks) |->
                       w.heap[w.heap[b].tasks[i]].result])]

\* the wrapped action of a leaf unit
UnitValue(t) == Num(t % 100)

LeafBody(w, t) ==
  LET k     == cfg.act[t]
      input == w.exec[t].input
      x     == X(Len(w.calls) + 1)
  IN CASE k = "ret"      -> [w |-> w, v |-> UnitValue(t)]
       [] k = "inc"      -> IF input.tag = "ctx"
                            THEN [w |-> w, v |-> AddOne(input.last)]
                            ELSE [w |-> Throw(w, TypeErr), v |-> Undef]
       [] k = "raiseErr" -> [w |-> Throw(w, Err(t)), v |-> Undef]
       [] k = "raiseVal" -> [w |-> Throw(w, Raw(t)), v |-> Undef]
       [] k = "add"      -> IF input.tag = "ctx"
                            THEN [w |-> AddTask(w, input.controller, x, t),
                                  v |-> UnitValue(t)]
                            ELSE [w |-> Throw(w, TypeErr), v |-> Undef]
       [] k = "prepend"  -> IF input.tag = "ctx"
                            THEN [w |-> PrependTask(w, input.controller, x, t),
                                  v |-> UnitValue(t)]
                            ELSE [w |-> Throw(w, TypeErr), v |-> Undef]

\* ------------------------------------------------------------- actions
Commit(w) ==
  /\ heap' = w.heap
  /\ exec' = w.exec
  /\ run' = w.run
  /\ signals' = w.signals
  /\ calls' = w.calls
  /\ UNCHANGED <<cfg, started>>

\* the caller: root.execute(input)
Start ==
  /\ ~started
  /\ LET w == Execute(World, cfg.root, cfg.input) IN
       /\ heap' = w.heap
       /\ exec' = w.exec
       /\ run' = w.run
       /\ signals' = w.signals
       /\ calls' = w.calls
  /\ started' = TRUE
  /\ UNCHANGED cfg

\* a job other than a timer or an idle poll is ready to run
Ready ==
  \/ \E t \in Ids : Kind(t) = "task" /\ exec[t].pc = "await"
                      /\ t \notin cfg.slow
  \/ \E l \in Ids : run[l].pc = "child"
                      /\ exec[run[l].child].pc \in {"resolved", "rejected"}
  \/ \E t \in Ids : exec[t].pc = "await" /\ run[t].pc \in {"returned", "thrown"}

\* a leaf unit's action settles and Task.execute resumes after its await;
\* a unit whose action waits on a timer settles after the ready jobs
LeafSettle(t) ==
  /\ Kind(t) = "task"
  /\ exec[t].pc = "await"
  /\ t \in cfg.slow => ~Ready
  /\ LET b == LeafBody(World, t) IN
       Commit(IF b.w.exc # NoExc THEN SettleErr(b.w, t, b.w.exc)
              ELSE SettleOk(b.w, t, b.v))

\* LaneContinue that does not wait for the child to settle
LaneContinueNoAwait(l) ==
  /\ run[l].pc = "child"
  /\ LET c == run[l].child IN
     IF exec[c].pc = "rejected"
     THEN Commit([World EXCEPT !.run[l].pc = "thrown",
                               !.run[l].out = exec[c].out])
     ELSE LET i  == heap[l].taskIndex
              w1 == [World EXCEPT !.run[l].last = exec[c].out,
                                  !.heap[l].taskIndex = i + 1]
              w2 == Progress(w1, l, TickArg(i))
          IN IF Len(w2.heap[l].tasks) <= w2.heap[l].taskIndex
             THEN LET w3 == Emit(w2, l, "empty", l, Undef) IN
                  IF w3.exc # NoExc
                  THEN Commit([w3 EXCEPT !.exc = NoExc,
                                         !.run[l].pc = "thrown",
                                         !.run[l].out = w3.exc])
                  ELSE Commit([w3 EXCEPT !.heap[l].empty = TRUE,
                                         !.run[l].pc = "idle"])
             ELSE Commit(Loop(w2, l))

\* TaskList.runTasks resumes after `await task.execute(...)`
LaneContinue(l) ==
  /\ run[l].pc = "child"
  /\ exec[run[l].child].pc \in {"resolved", "rejected"}
  /\ LET c == run[l].child IN
     IF exec[c].pc = "rejected"
     THEN Commit([World EXCEPT !.run[l].pc = "thrown",
                               !.run[l].out = exec[c].out])
     ELSE LET i  == heap[l].taskIndex
              w1 == [World EXCEPT !.run[l].last = exec[c].out,
                                  !.heap[l].taskIndex = i + 1]
              w2 == Progress(w1, l, TickArg(i))
          IN IF Len(w2.heap[l].tasks) <= w2.heap[l].taskIndex
             THEN LET w3 == Emit(w2, l, "empty", l, Undef) IN
                  IF w3.exc # NoExc
                  THEN Commit([w3 EXCEPT !.exc = NoExc,
                                         !.run[l].pc = "thrown",
                                         !.run[l].out = w3.exc])
                  ELSE Commit([w3 EXCEPT !.heap[l].empty = TRUE,
                                         !.run[l].pc = "idle"])
             ELSE Commit(Loop(w2, l))

\* TaskList.stayIdle: one setImmediate poll
LaneIdleTick(l) ==
  /\ run[l].pc = "idle"
  /\ IF heap[l].wait THEN UNCHANGED vars
     ELSE Commit(Loop(World, l))

\* Task.execute of a lane or a distributor resumes after its await
ExecContinue(t) ==
  /\ Kind(t) # "task"
  /\ exec[t].pc = "await"
  /\ run[t].pc \in {"returned", "thrown"}
  /\ IF run[t].pc = "thrown"
     THEN Commit(SettleErr(World, t, run[t].out))
     ELSE Commit(SettleOk(World, t, run[t].out))

\* TaskBucket.runTasks resumes after `await Promise.all(...)`
BucketContinue(b) ==
  /\ Kind(b) = "bucket"
  /\ run[b].pc = "all"
  /\ LET q == heap[b].taskLists IN
     \/ \E i \in 1..Len(q) :
          /\ exec[q[i]].pc = "rejected"
          /\ Commit([World EXCEPT !.run[b].pc = "thrown",
                                  !.run[b].out = exec[q[i]].out])
     \/ /\ \A i \in 1..Len(q) : exec[q[i]].pc = "resolved"
        /\ LET r == BucketResult(World, b, run[b].input) IN
             Commit([World EXCEPT
                       !.run[b].pc = IF r.ok THEN "returned" ELSE "thrown",
                       !.run[b].out = r.v])

CallerCalls == Cardinality({i \in 1..Len(calls) : calls[i].by = NoId})

\* the scopes the caller reaches: the root it built and, through the public
\* taskLists field of a distributor, the lanes of its pool
CallerScope(s) ==
  \/ s = cfg.root
  \/ /\ cfg.pool
     /\ \E i \in 1..Len(heap[cfg.root].taskLists) :
          heap[cfg.root].taskLists[i] = s

\* how many times the caller has executed the root
Runs ==
  Cardinality({i \in 1..Len(signals) :
                 signals[i].on = cfg.root /\ signals[i].name = "execute"})

\* a caller that feeds the pool does so between the two runs
CallerMayCall ==
  /\ cfg.caller
  /\ CallerCalls < MaxCalls
  /\ cfg.pool => /\ Runs = 1
                 /\ exec[cfg.root].pc \in {"resolved", "rejected"}

\* the caller: root.execute(input) a second time, after the first settled
CallerExecuteAgain ==
  /\ started
  /\ cfg.rerun
  /\ Runs = 1
  /\ exec[cfg.root].pc \in {"resolved", "rejected"}
  /\ Commit(Execute(World, cfg.root, cfg.input))

\* the caller: scope.addTask(unit)
CallerAddTask(s) ==
  /\ Kind(s) # "task"
  /\ CallerScope(s)
  /\ CallerMayCall
  /\ Commit([AddTask(World, s, X(Len(calls) + 1), NoId) EXCEPT !.exc = NoExc])

\* the caller: scope.prependTask(unit)
CallerPrependTask(s) ==
  /\ Kind(s) # "task"
  /\ CallerScope(s)
  /\ CallerMayCall
  /\ Commit([PrependTask(World, s, X(Len(calls) + 1), NoId)
               EXCEPT !.exc = NoExc])

\* the caller: lane.pause()
CallerPause(l) ==
  /\ Kind(l) = "list"
  /\ l = cfg.root
  /\ cfg.caller
  /\ ~heap[l].wait
  /\ Commit(Pause(World, l))

\* the caller: lane.resume()
CallerResume(l) ==
  /\ Kind(l) = "list"
  /\ l = cfg.root
  /\ cfg.caller
  /\ heap[l].wait
  /\ Commit(Resume(World, l))

\* ---------------------------------------------------------------- Init
\* build.list(...) / build.parallel(...) / build.one(...) of the caller
Build(root, n, m, p, collect, nested, errSub) ==
  [t \in Ids |->
     IF t = R /\ root = R
     THEN [NewTaskList(R, [i \in 1..n |-> U(i)] \o (IF nested THEN <<B>> ELSE <<>>),
                       NoId, FALSE) EXCEPT !.errSub = errSub]
     ELSE IF t = B /\ (root = B \/ nested)
     THEN [NewTaskBucket([i \in 1..m |-> V(i)], p, collect)
             EXCEPT !.errSub = (errSub /\ root = B)]
     ELSE [NewTask EXCEPT !.errSub = (errSub /\ root = t)]]

Acts(n, base, special, skind) ==
  [t \in Ids |->
     IF t \in UnitsU /\ t % 100 <= n
     THEN IF t % 100 = special THEN skind ELSE base[t % 100]
     ELSE "ret"]

InitCommon ==
  /\ exec = [t \in Ids |-> NoExec]
  /\ run = [t \in Ids |-> NoRun]
  /\ signals = <<>>
  /\ calls = <<>>
  /\ started = FALSE

\* a single unit executed directly, possibly twice
InitUnit ==
  \E k \in {"ret", "raiseErr", "raiseVal"}, errSub \in BOOLEAN :
    /\ heap = Build(U(1), 0, 0, 0, "none", FALSE, errSub)
    /\ cfg = [root |-> U(1), input |-> Undef, caller |-> FALSE,
              rerun |-> TRUE, pool |-> FALSE,
              act |-> Acts(1, <<k>>, 0, "ret"), slow |-> {}]

\* a lane of n units, at most one of which raises or feeds the lane; the
\* caller may pause, resume and feed it at any time
InitList ==
  \E n \in 0..MaxUnits, errSub \in BOOLEAN :
  \E base \in [1..n -> {"ret", "inc"}], special \in 0..n,
     skind \in {"raiseErr", "raiseVal", "add", "prepend"} :
    /\ heap = Build(R, n, 0, 0, "none", FALSE, errSub)
    /\ cfg = [root |-> R, input |-> Undef, caller |-> TRUE,
              rerun |-> FALSE, pool |-> FALSE,
              act |-> Acts(n, base, special, skind), slow |-> {}]

\* a lane of n units followed by a distributor, as in the test files; the
\* caller only executes it
InitNested ==
  \E n \in 0..MaxUnits, m \in 0..MaxBucketUnits, p \in 1..MaxParallel,
     collect \in {"none", "results", "status"} :
  \E base \in [1..n -> {"ret", "inc"}] :
    /\ heap = Build(R, n, m, p, collect, TRUE, FALSE)
    /\ cfg = [root |-> R, input |-> Undef, caller |-> FALSE,
              rerun |-> FALSE, pool |-> FALSE,
              act |-> Acts(n, base, 0, "ret"), slow |-> {}]

\* a distributor executed directly, at most one unit of which raises or
\* settles on a timer; the caller may feed it at any time
InitBucket ==
  \E m \in 0..MaxBucketUnits, p \in 1..MaxParallel, errSub \in BOOLEAN,
     collect \in {"none", "results", "status"} :
  \E special \in {NoId} \cup {V(i) : i \in 1..m},
     skind \in {"raiseErr", "slow"} :
    /\ heap = Build(B, 0, m, p, collect, FALSE, errSub)
    /\ cfg = [root |-> B, input |-> Ctx(Undef, Undef, NoId),
              caller |-> TRUE, rerun |-> FALSE, pool |-> FALSE,
              act |-> [t \in Ids |->
                         IF t = special /\ skind = "raiseErr"
                         THEN "raiseErr" ELSE "ret"],
              slow |-> IF skind = "slow" THEN {special} \ {NoId} ELSE {}]

\* a distributor executed twice; between the runs the caller hands units
\* to the distributor or, through taskLists, to the lanes of its pool
InitPool ==
  \E m \in {0, MaxBucketUnits}, p \in 1..MaxParallel,
     xkind \in {"ret", "raiseErr", "raiseVal"} :
    /\ heap = Build(B, 0, m, p, "none", FALSE, FALSE)
    /\ cfg = [root |-> B, input |-> Ctx(Undef, Undef, NoId),
              caller |-> TRUE, rerun |-> TRUE, pool |-> TRUE,
              act |-> [t \in Ids |-> IF t \in UnitsX THEN xkind ELSE "ret"],
              slow |-> {}]

Init ==
  InitCommon /\ (InitUnit \/ InitList \/ InitNested \/ InitBucket \/ InitPool)

Next ==
  \/ Start
  \/ \E t \in Ids : LeafSettle(t)
  \/ \E l \in Ids : LaneContinue(l)
  \/ \E l \in Ids : LaneIdleTick(l)
  \/ \E t \in Ids : ExecContinue(t)
  \/ \E b \in Ids : BucketContinue(b)
  \/ \E s \in Ids : CallerAddTask(s)
  \/ \E s \in Ids : CallerPrependTask(s)
  \/ \E l \in Ids : CallerPause(l)
  \/ \E l \in Ids : CallerResume(l)
  \/ CallerExecuteAgain

Spec == Init /\ [][Next]_vars

\* ------------------------------------------------------- observations
\* how many times Task.execute was entered for t
ExecCount(t) ==
  Cardinality({i \in 1..Len(signals) :
                 signals[i].on = t /\ signals[i].name = "execute"})

\* the lanes of the pool whose queue holds t
LanesHolding(t) ==
  {l \in Lanes : \E i \in 1..Len(heap[l].tasks) : heap[l].tasks[i] = t}

\* the tick values of the 'progress' signals t emitted, in order
IsProgressOf(t, sig) == sig.on = t /\ sig.name = "progress"

ProgressValues(t) ==
  LET Sel(sig) == IsProgressOf(t, sig)
      q == SelectSeq(signals, Sel)
  IN [i \in 1..Len(q) |-> q[i].val]

\* position in the signal log of t's 'done' signal, 0 if it has none
DonePos(t) ==
  LET S == {i \in 1..Len(signals) :
              signals[i].on = t /\ signals[i].name = "done"}
  IN IF S = {} THEN 0 ELSE CHOOSE i \in S : \A j \in S : i <= j

Resolved(t) == exec[t].pc = "resolved"
Rejected(t) == exec[t].pc = "rejected"

\* the units of a queue all have actions that return
Succeeding(q) ==
  \A i \in 1..Len(q) :
    Kind(q[i]) = "task" => cfg.act[q[i]] \in {"ret", "inc"}

\* ------------------------------------------------------------- claims

\* C1: when a distributor with parallelism p and m > p succeeding units
\* has resolved, every queued unit has been executed exactly once and sits
\* in the queue of exactly one lane.
C1_CompleteCoverage ==
  (/\ Resolved(B)
   /\ CallerCalls = 0
   /\ Len(heap[B].tasks) > heap[B].parallel
   /\ Succeeding(heap[B].tasks))
  => \A i \in 1..Len(heap[B].tasks) :
       /\ ExecCount(heap[B].tasks[i]) = 1
       /\ Cardinality(LanesHolding(heap[B].tasks[i])) = 1

\* C2: when a distributor with parallelism p and m <= p units has
\* completed, at most m lanes received a unit and every lane of the pool
\* is resumed (wait false) and idle (empty true).
C2_BoundedParallelism ==
  (/\ Resolved(B)
   /\ Len(heap[B].tasks) <= heap[B].parallel)
  => /\ Cardinality({l \in Lanes : heap[l].tasks # <<>>})
          <= Len(heap[B].tasks)
     /\ \A i \in 1..Len(heap[B].taskLists) :
          /\ ~heap[heap[B].taskLists[i]].wait
          /\ heap[heap[B].taskLists[i]].empty

\* C3: in a sequential lane of succeeding units the first unit is
\* executed with last = false, every later unit with last = the result of
\* the unit before it, and the lane resolves with the result of the last
\* unit it ran.
C3_LastThreading ==
  (cfg.root = R /\ ~heap[R].isQueue /\ Succeeding(heap[R].tasks))
  => /\ \A i \in 1..Len(heap[R].tasks) :
          exec[heap[R].tasks[i]].pc # "none"
          => /\ exec[heap[R].tasks[i]].input.tag = "ctx"
             /\ exec[heap[R].tasks[i]].input.last =
                  IF i = 1 THEN False
                  ELSE heap[heap[R].tasks[i - 1]].result
     /\ (Resolved(R) /\ heap[R].taskIndex > 0)
          => /\ heap[R].result = heap[heap[R].tasks[heap[R].taskIndex]].result
             /\ exec[R].out = heap[R].result

C3_Witness ==
  /\ cfg.root = R
  /\ Resolved(R)
  /\ Len(heap[R].tasks) >= 2
  /\ heap[R].taskIndex = Len(heap[R].tasks)
  /\ Succeeding(heap[R].tasks)
  /\ heap[R].result = Num(2)

\* C4: a sequential lane of n succeeding units that has resolved emitted
\* exactly n progress signals, with the tick values 1, 2, ..., n.
C4_ProgressOneToN ==
  (/\ cfg.root = R
   /\ Resolved(R)
   /\ CallerCalls = 0
   /\ Succeeding(heap[R].tasks))
  => ProgressValues(R) = [i \in 1..Len(heap[R].tasks) |-> Num(i)]

\* C5: a unit whose execution was rejected because its action raised e
\* has status 'error', its error field is e, and its execution - and the
\* run of the lane awaiting it - rejected with that same e.
C5_FailurePropagation ==
  /\ \A t \in Ids :
       Rejected(t) => /\ heap[t].status = "error"
                      /\ exec[t].out = heap[t].error
  /\ \A l \in Ids :
       (run[l].pc = "thrown" /\ run[l].child # NoId
          /\ Rejected(run[l].child))
       => run[l].out = heap[run[l].child].error

\* C6: addTask or prependTask on a scope whose status is done or error
\* raises and leaves the queue, the cursor and totalTicks unchanged.
C6_TerminalMutationRaises ==
  \A i \in 1..Len(calls) :
    calls[i].status \in {"done", "error"}
    => /\ calls[i].threw
       /\ calls[i].after = calls[i].before

\* C7: addTask on a lane whose status is created or execute does not
\* raise and puts the unit at the end of the lane's queue.
C7_NonTerminalAppendSucceeds ==
  \A i \in 1..Len(calls) :
    (/\ calls[i].op = "addTask"
     /\ Kind(calls[i].scope) = "list"
     /\ calls[i].status \in {"created", "execute"})
    => /\ ~calls[i].threw
       /\ calls[i].after.tasks = Append(calls[i].before.tasks, calls[i].unit)

\* C8: a distributor with a collector that is the child of a lane hands
\* the collector its queue and the context the lane executed it with, and
\* resolves with what the collector returns; the lane
\* [return 1, last + 1, distributor] resolves with a value whose last is 2.
C8_CollectorResult ==
  (/\ cfg.root = R
   /\ heap[B].collect # "none"
   /\ run[B].pc = "returned")
  => /\ exec[B].input.tag = "ctx"
     /\ exec[B].input.controller = R
     /\ run[B].out.tag = "ctx"
     /\ run[B].out.last = exec[B].input.last
     /\ run[B].out.state = exec[B].input.state
     /\ run[B].out.controller = exec[B].input.controller
     /\ Len(run[B].out.parallel.items) = Len(heap[B].tasks)
     /\ Resolved(B) => /\ heap[B].result = run[B].out
                       /\ exec[B].out = run[B].out
     /\ Resolved(R) => heap[R].result = run[B].out
     /\ (/\ Len(heap[R].tasks) = 3
         /\ cfg.act[U(1)] = "ret"
         /\ cfg.act[U(2)] = "inc"
         /\ Resolved(R))
        => heap[R].result.last = Num(2)

C8_Witness ==
  /\ cfg.root = R
  /\ heap[B].collect = "results"
  /\ Len(heap[R].tasks) = 3
  /\ cfg.act[U(1)] = "ret"
  /\ cfg.act[U(2)] = "inc"
  /\ Len(heap[B].tasks) = 3
  /\ heap[B].parallel = 2
  /\ Resolved(R)
  /\ heap[R].result.tag = "ctx"
  /\ heap[R].result.last = Num(2)

\* C9: when the distributor's result is assembled, every unit of its
\* queue has status done and holds a produced result.
C9_AssembledAtCompletion ==
  (run[B].pc = "returned" /\ CallerCalls = 0)
  => /\ \A i \in 1..Len(heap[B].tasks) :
          /\ heap[heap[B].tasks[i]].status = "done"
          /\ heap[heap[B].tasks[i]].result # Undef
     /\ LET items == IF heap[B].collect = "none" THEN run[B].out.items
                     ELSE run[B].out.parallel.items
        IN \A i \in 1..Len(items) :
             items[i] # Undef /\ items[i] # Str("created")

\* C10: with parallelism 2 and queue [A, B, C] where B settles on a timer,
\* C is done before B is done once the distributor has resolved.
C10_FastLaneTakesNext ==
  (/\ cfg.root = B
   /\ heap[B].parallel = 2
   /\ Len(heap[B].tasks) = 3
   /\ cfg.slow = {V(2)}
   /\ Succeeding(heap[B].tasks)
   /\ Resolved(B))
  => /\ DonePos(V(3)) > 0
     /\ DonePos(V(2)) > DonePos(V(3))

\* the child/execute, child/done and child/error signals a lane emitted
IsChildLifeOf(l, sig) ==
  sig.on = l /\ sig.name \in {"child/execute", "child/done", "child/error"}

ChildLife(l) ==
  LET Sel(sig) == IsChildLifeOf(l, sig) IN SelectSeq(signals, Sel)

\* the children a lane started, in the order it started them
StartedBy(l) ==
  LET Sel(sig) == sig.on = l /\ sig.name = "child/execute"
      q == SelectSeq(signals, Sel)
  IN [i \in 1..Len(q) |-> q[i].src]

\* no addTask/prependTask call on s went through
Unmutated(s) ==
  \A i \in 1..Len(calls) : calls[i].scope = s => calls[i].threw

\* C11: in every sequential lane a child starts only after the child
\* started before it has settled (done or failed), the children start in
\* queue order, and at most one child of the lane is executing.
C11_OneChildAtATime ==
  \A l \in Ids :
    Kind(l) = "list"
    => /\ \A i \in 1..Len(ChildLife(l)) :
            IF i % 2 = 1
            THEN ChildLife(l)[i].name = "child/execute"
            ELSE /\ ChildLife(l)[i].name \in {"child/done", "child/error"}
                 /\ ChildLife(l)[i].src = ChildLife(l)[i - 1].src
       /\ Cardinality({i \in 1..Len(heap[l].tasks) :
                         heap[heap[l].tasks[i]].status = "execute"}) <= 1
       /\ Unmutated(l)
            => /\ Len(StartedBy(l)) <= Len(heap[l].tasks)
               /\ StartedBy(l) = SubSeq(heap[l].tasks, 1, Len(StartedBy(l)))

C11_Witness ==
  /\ Len(StartedBy(R)) >= 2
  /\ heap[StartedBy(R)[1]].status = "done"
  /\ heap[StartedBy(R)[2]].status = "execute"

\* C12: whatever the caller executes and however actions end, every
\* object's status changes only created -> execute -> done or
\* created -> execute -> error, and once it is done or error its status,
\* result and error never change again.
C12_TerminalIsFinal ==
  [][\A t \in Ids :
       /\ \/ heap'[t].status = heap[t].status
          \/ heap[t].status = "created" /\ heap'[t].status = "execute"
          \/ heap[t].status = "execute" /\ heap'[t].status \in {"done", "error"}
       /\ heap[t].status \in {"done", "error"}
            => /\ heap'[t].status = heap[t].status
               /\ heap'[t].result = heap[t].result
               /\ heap'[t].error = heap[t].error]_vars

\* C13: a lane's run returns only after the lane, its cursor at the end
\* of its queue (a queue that was empty from the start included), has
\* emitted 'empty' and marked itself idle, and only while it is not
\* paused; it then returns the last resolved result.
C13_IdleBeforeReturn ==
  [][\A l \in Ids :
       (Kind(l) = "list" /\ run[l].pc # "returned" /\ run'[l].pc = "returned")
         => /\ \E i \in 1..Len(signals') :
                 signals'[i].on = l /\ signals'[i].name = "empty"
            /\ heap'[l].empty
            /\ ~heap'[l].wait
            /\ run'[l].out = run[l].last]_vars

\* C14: a step in which a lane of the pool emits 'empty' while the
\* distributor's taskIndex equals the length of its queue and every lane of
\* the pool is at the end of its own queue leaves every lane resumed; and
\* the distributor's execution resolves only when every lane of its pool
\* is idle.
C14_CompletionRule ==
  [][LET q == heap'[B].taskLists IN
     /\ (/\ \E i \in (Len(signals) + 1)..Len(signals') :
              /\ signals'[i].name = "empty"
              /\ \E k \in 1..Len(q) : signals'[i].on = q[k]
         /\ heap'[B].taskIndex = Len(heap'[B].tasks)
         /\ \A k \in 1..Len(q) :
              heap'[q[k]].taskIndex = Len(heap'[q[k]].tasks))
          => \A k \in 1..Len(q) : ~heap'[q[k]].wait
     /\ (exec[B].pc # "resolved" /\ exec'[B].pc = "resolved")
          => \A k \in 1..Len(q) : heap'[q[k]].empty]_vars

\* C15: a step in which a lane of the pool emits 'empty' while the
\* distributor's taskIndex is below the length of its queue appends
\* exactly the unit at taskIndex to that lane's queue, raises taskIndex by
\* one, and leaves the lane's wait flag and every other lane's queue as
\* they were.
C15_DistributionRule ==
  [][\A l \in Lanes :
       (/\ \E k \in 1..Len(heap[B].taskLists) : heap[B].taskLists[k] = l
        /\ \E i \in (Len(signals) + 1)..Len(signals') :
             signals'[i].name = "empty" /\ signals'[i].on = l
        /\ heap[B].taskIndex < Len(heap[B].tasks))
         => /\ heap'[l].tasks =
                 Append(heap[l].tasks, heap[B].tasks[heap[B].taskIndex + 1])
            /\ heap'[B].taskIndex = heap[B].taskIndex + 1
            /\ heap'[l].wait = heap[l].wait
            /\ \A o \in Lanes \ {l} : heap'[o].tasks = heap[o].tasks]_vars

\* the units a distributor holds: those of its own queue and those in the
\* queues of the lanes of its pool
UnitsHeld(b) ==
  {heap[b].tasks[i] : i \in 1..Len(heap[b].tasks)}
    \cup UNION {{heap[l].tasks[i] : i \in 1..Len(heap[l].tasks)} :
                  l \in {heap[b].taskLists[k] :
                           k \in 1..Len(heap[b].taskLists)}}

\* C16: at every moment at most `parallel` of the units a distributor
\* holds are executing, and from its first run onward, a second run
\* included, its pool holds exactly `parallel` distinct lanes.
C16_FixedPool ==
  /\ Cardinality({t \in UnitsHeld(B) : heap[t].status = "execute"})
       <= heap[B].parallel
  /\ ExecCount(B) >= 1
       => /\ Len(heap[B].taskLists) = heap[B].parallel
          /\ \A i, j \in 1..Len(heap[B].taskLists) :
               heap[B].taskLists[i] = heap[B].taskLists[j] => i = j
  /\ ExecCount(B) = 0 => heap[B].taskLists = <<>>

\* a second run under way with a unit of a lane executing
C16_Witness ==
  /\ ExecCount(B) = 2
  /\ Len(heap[B].taskLists) = heap[B].parallel
  /\ heap[B].parallel >= 2
  /\ \E t \in UnitsHeld(B) : heap[t].status = "execute"

\* C17: a distributor without a collect function whose units all succeed
\* resolves with an array as long as its queue whose i-th item is the
\* value the action of the i-th unit of the queue produced.
C17_DefaultResult ==
  (/\ Resolved(B)
   /\ heap[B].collect = "none"
   /\ CallerCalls = 0
   /\ Succeeding(heap[B].tasks)
   /\ \A i \in 1..Len(heap[B].tasks) : cfg.act[heap[B].tasks[i]] = "ret")
  => heap[B].result =
       Arr([i \in 1..Len(heap[B].tasks) |-> UnitValue(heap[B].tasks[i])])

\* C18: for every lane and distributor, whatever has been constructed,
\* added, prepended (calls that throw included) and run, totalTicks equals
\* the length of the queue and taskIndex lies between 0 and that length.
C18_TicksMatchQueue ==
  \A s \in Ids :
    Kind(s) # "task"
    => /\ heap[s].totalTicks = Len(heap[s].tasks)
       /\ 0 <= heap[s].taskIndex
       /\ heap[s].taskIndex <= Len(heap[s].tasks)

\* a scope that took one call that threw and one that did not and has
\* run past the first unit of its queue
C18_Witness ==
  \E i, j \in 1..Len(calls) :
    /\ calls[i].scope = calls[j].scope
    /\ calls[i].threw
    /\ ~calls[j].threw
    /\ heap[calls[i].scope].taskIndex >= 1
    /\ heap[calls[i].scope].totalTicks = Len(calls[j].before.tasks) + 1

\* C19: when a unit running in a lane calls prependTask(u) on the lane, u
\* enters the lane's queue, the lane starts u next after that unit has
\* settled, and the unit itself is executed only once.
C19_PrependedRunsNext ==
  \A i \in 1..Len(calls) :
    (/\ calls[i].op = "prependTask"
     /\ calls[i].by \in Ids
     /\ Kind(calls[i].by) = "task"
     /\ Kind(calls[i].scope) = "list")
    => /\ ~calls[i].threw
       /\ \E p \in 1..Len(heap[calls[i].scope].tasks) :
            heap[calls[i].scope].tasks[p] = calls[i].unit
       /\ ExecCount(calls[i].by) <= 1
       /\ \A p \in 1..(Len(StartedBy(calls[i].scope)) - 1) :
            StartedBy(calls[i].scope)[p] = calls[i].by
              => StartedBy(calls[i].scope)[p + 1] = calls[i].unit

\* the lanes of the pool of distributor b
PoolOf(b) == {heap[b].taskLists[k] : k \in 1..Len(heap[b].taskLists)}

\* C20: when a unit running in a lane of a distributor's pool raises e,
\* the step leaves the sibling lanes and their units as they were; the
\* lane's execution, once rejected, rejected with e; and the distributor's
\* execution, once rejected on account of that lane alone, rejected with e.
C20_LaneFailureRejectsWithE ==
  [][\A l \in PoolOf(B) :
       LET t == run'[l].child IN
       (t \in Ids /\ exec'[t].pc = "rejected")
         => /\ exec[t].pc # "rejected"
                 => \A o \in PoolOf(B) \ {l} :
                      /\ heap'[o] = heap[o]
                      /\ exec'[o] = exec[o]
                      /\ run'[o] = run[o]
                      /\ \A p \in 1..Len(heap[o].tasks) :
                           /\ heap'[heap[o].tasks[p]] = heap[heap[o].tasks[p]]
                           /\ exec'[heap[o].tasks[p]] = exec[heap[o].tasks[p]]
            /\ exec'[l].pc = "rejected" => exec'[l].out = heap'[t].error
            /\ (/\ exec'[B].pc = "rejected"
                /\ \A o \in PoolOf(B) \ {l} : exec'[o].pc # "rejected")
                 => exec'[B].out = heap'[t].error]_vars

\* ------------------------------------------------------------ fairness
\* one turn of the event loop: some ready job (a promise reaction or a
\* setImmediate poll) runs
EventLoop ==
  \/ \E t \in Ids : LeafSettle(t)
  \/ \E l \in Ids : LaneContinue(l)
  \/ \E l \in Ids : LaneIdleTick(l)
  \/ \E t \in Ids : ExecContinue(t)
  \/ \E b \in Ids : BucketContinue(b)

\* the guards of the jobs: some turn of the event loop would change the
\* state (the poll of a paused lane changes nothing)
JobReady ==
  \/ \E t \in Ids :
       /\ Kind(t) = "task"
       /\ exec[t].pc = "await"
       /\ (t \in cfg.slow => ~Ready)
  \/ \E l \in Ids :
       /\ run[l].pc = "child"
       /\ exec[run[l].child].pc \in {"resolved", "rejected"}
  \/ \E l \in Ids :
       /\ run[l].pc = "idle"
       /\ ~heap[l].wait
  \/ \E t \in Ids :
       /\ Kind(t) # "task"
       /\ exec[t].pc = "await"
       /\ run[t].pc \in {"returned", "thrown"}
  \/ \E b \in Ids :
       /\ Kind(b) = "bucket"
       /\ run[b].pc = "all"
       /\ \/ \E i \in 1..Len(heap[b].taskLists) :
               exec[heap[b].taskLists[i]].pc = "rejected"
          \/ \A i \in 1..Len(heap[b].taskLists) :
               exec[heap[b].taskLists[i]].pc = "resolved"

\* weak fairness of the event loop, WF_vars(EventLoop) with its enabling
\* condition written out: the loop keeps turning while a job is ready;
\* the caller's own calls are under no obligation
Fairness == ([]<>(~JobReady)) \/ ([]<><<EventLoop>>_vars)

FairSpec == Spec /\ Fairness

\* the root is a lane of leaf units whose actions all return
PlainLane ==
  /\ cfg.root = R
  /\ \A i \in 1..Len(heap[R].tasks) :
       /\ Kind(heap[R].tasks[i]) = "task"
       /\ cfg.act[heap[R].tasks[i]] \in {"ret", "inc"}

\* C21 (first half): a started lane of units that all succeed reaches
\* status done with taskIndex at the end of its queue, unless it is paused
\* or handed further work on the way.
C21_Terminates ==
  (started /\ PlainLane /\ calls = <<>>)
    ~> \/ heap[R].status = "done" /\ heap[R].taskIndex = Len(heap[R].tasks)
       \/ heap[R].wait
       \/ \E i \in 1..Len(calls) : ~calls[i].threw

\* C21 (second half): a lane that is paused when its taskIndex is at the
\* end of its queue stays in the idle wait, its status unchanged, and its
\* run does not return while it is paused.
C21_PausedStaysIdle ==
  [][\A l \in Ids :
       Kind(l) = "list"
       => /\ (run[l].pc = "idle" /\ heap[l].wait)
               => /\ run'[l].pc = "idle"
                  /\ heap'[l].status = heap[l].status
          /\ (run[l].pc # "returned" /\ run'[l].pc = "returned")
               => ~heap'[l].wait]_vars

\* C21: termination of a lane that is never paused, and no completion of
\* a lane paused at exhaustion before resume() is called.
C21_Termination == C21_Terminates /\ C21_PausedStaysIdle

====
